---- MODULE Spec2Model ----
(***************************************************************************)
(* Model of the two provisioning scripts of the repository:                *)
(*   src/ubuntu_custom_encryption.py  (Disk Encryption Provisioner)        *)
(*   src/setup_desktop.py             (Desktop Provisioner)                *)
(*                                                                         *)
(* Text (tool output, file content) is a sequence of tokens.  A token is   *)
(* either the newline character or a chunk of characters without newline   *)
(* that the code never looks inside of.                                    *)
(***************************************************************************)
EXTENDS Integers, Sequences, FiniteSets, TLC

\* ------------------------------------------------------------- bounds
\* longest output of the partitioning tool that is enumerated (tokens)
MaxStdoutLen == 7
\* faults over all invocations: commands that exit non-zero (or time out), kills
MaxFaults == 1
\* invocations of the script from the top
MaxRuns == 2
\* answers other than y/n given at one confirmation gate
MaxPrompts == 1

\* ------------------------------------------------------------- text
nl == "\n"

Min(a, b) == IF a < b THEN a ELSE b

\* all token sequences over alphabet S of length at most n
SeqsUpTo(S, n) == UNION {[1..k -> S] : k \in 0..n}

\* str.split("\n\n"): cut at every non-overlapping blank-line separator, left to right
RECURSIVE SplitBlank(_, _)
SplitBlank(s, cur) ==
    IF s = <<>> THEN <<cur>>
    ELSE IF Len(s) >= 2 /\ s[1] = nl /\ s[2] = nl
         THEN <<cur>> \o SplitBlank(SubSeq(s, 3, Len(s)), <<>>)
         ELSE SplitBlank(Tail(s), Append(cur, Head(s)))

\* "\n\n".join(parts)
RECURSIVE JoinBlank(_)
JoinBlank(parts) ==
    IF parts = <<>> THEN <<>>
    ELSE IF Len(parts) = 1 THEN parts[1]
         ELSE parts[1] \o <<nl, nl>> \o JoinBlank(Tail(parts))

\* str.splitlines(keepends=True), also the iteration of a text file by line
RECURSIVE SplitLines(_, _)
SplitLines(s, cur) ==
    IF s = <<>> THEN (IF cur = <<>> THEN <<>> ELSE <<cur>>)
    ELSE IF Head(s) = nl
         THEN <<Append(cur, nl)>> \o SplitLines(Tail(s), <<>>)
         ELSE SplitLines(Tail(s), Append(cur, Head(s)))

splitlines(s) == SplitLines(s, <<>>)

\* length of the longest common prefix of two lists of lines
RECURSIVE CommonPrefix(_, _)
CommonPrefix(a, b) ==
    IF a = <<>> \/ b = <<>> \/ Head(a) # Head(b) THEN 0
    ELSE 1 + CommonPrefix(Tail(a), Tail(b))

\* difflib.unified_diff(a, b, fromfile="expected", tofile="current"): nothing for
\* equal inputs; otherwise the two header lines and the lines that differ,
\* marked "-" (only in a) and "+" (only in b).  Context lines and the hunk
\* header are left out.
unified_diff(a, b) ==
    IF a = b THEN <<>>
    ELSE LET k == CommonPrefix(a, b)
             minus == [j \in 1..(Len(a) - k) |-> <<"-">> \o a[k + j]]
             plus  == [j \in 1..(Len(b) - k) |-> <<"+">> \o b[k + j]]
         IN  <<<<"--- expected", nl>>, <<"+++ current", nl>>>> \o minus \o plus

\* ------------------------------------------------------------- partition layout
\* "A" is the text of the /dev/sda section (source lines 201-207), "B" the
\* text of the /dev/sdb section (lines 209-213); "x" is any other character.
PartTokens == {"A", "B", "x", nl}

\* expected_partitions(): the two sections, one blank line between, one final newline
expected_partitions == <<"A", nl, nl, "B", nl>>

\* (mutant) every section of the output is kept: the [:2] is dropped
current_partitions_all(out) == JoinBlank(SplitBlank(out, <<>>)) \o <<nl>>

\* current_partitions = "\n\n".join(p.stdout.split("\n\n")[:2]) + "\n"
current_partitions(out) ==
    LET parts == SplitBlank(out, <<>>)
    IN  JoinBlank(SubSeq(parts, 1, Min(2, Len(parts)))) \o <<nl>>

\* the diff check_partitions computes and prints
partitions_diff(out) ==
    unified_diff(splitlines(expected_partitions), splitlines(current_partitions(out)))

\* ------------------------------------------------------------- configuration
\* LUKS_DEVICES, in iteration order: <<partition, name>>
LUKS_DEVICES == << <<"/dev/sda5", "system">>, <<"/dev/sdb3", "data">> >>

Devices == {LUKS_DEVICES[k][1] : k \in DOMAIN LUKS_DEVICES}
Names   == {LUKS_DEVICES[k][2] : k \in DOMAIN LUKS_DEVICES}

\* LUKS_NAME_MAP: name -> partition
LUKS_NAME_MAP == [n \in Names |->
    LUKS_DEVICES[CHOOSE k \in DOMAIN LUKS_DEVICES : LUKS_DEVICES[k][2] = n][1] ]

\* VOLUME_GROUPS, in iteration order: <<volume group, physical volumes>>
VOLUME_GROUPS == << <<"system", <<"/dev/mapper/system">> >>,
                    <<"data",   <<"/dev/mapper/data">> >> >>

\* LOGICAL_VOLUMES, in iteration order: <<volume group, volume name, type>>
LOGICAL_VOLUMES == << <<"system", "boot", "ext3">>,
                      <<"system", "swap", "swap">>,
                      <<"system", "root", "ext4">>,
                      <<"data",   "home", "ext4">> >>

\* a logical volume is named by its volume name (the four names differ)
Volumes == {LOGICAL_VOLUMES[k][2] : k \in DOMAIN LOGICAL_VOLUMES}
VolumeData(v) == LOGICAL_VOLUMES[CHOOSE k \in DOMAIN LOGICAL_VOLUMES : LOGICAL_VOLUMES[k][2] = v]

\* the mount commands of mount_partitions after mkdir, in order: mount points
MOUNTS == <<"/mnt/root", "/mnt/root/boot", "/mnt/root/boot/efi", "/mnt/root/home">>

\* key_files of create_key_files, in order: the LUKS name each key belongs to
KEY_FILES == <<"system", "data">>

\* the scripts fix_chroot_stuff installs, in order
SCRIPTS == <<"getinitramfskey.sh", "loadinitramfskey.sh", "refreshgrub">>

\* the packages the desktop provisioner probes with is_installed
PROBED_PKGS == {"nautilus-dropbox", "google-chrome-stable"}

\* the calls of __main__ of ubuntu_custom_encryption.py, in order
Main == <<"check_partitions", "setup_luks", "open_luks", "check_physical_volumes",
          "check_volume_groups", "check_logical_volumes", "query_installed",
          "mount_partitions", "create_key_files", "fix_crypttab", "fix_grub",
          "fix_chroot_stuff">>

\* ------------------------------------------------------------- state
VARIABLES
    script,    \* the calls the entry point makes, in order
    todo,      \* the calls of this invocation not yet returned; <<>>: process ended
    at,        \* position inside the function Head(todo)
    i,         \* loop index inside the function Head(todo)
    loc,       \* local variables of the function Head(todo)
    runs,      \* invocations so far
    faults,    \* commands that exited non-zero or timed out, and kills, so far
    prompts,   \* invalid answers given at the current confirmation gate
    exit,      \* "running", "exit0", "exit1" (sys.exit(msg) or uncaught exception), "killed"
    VERBOSE,   \* args.safe
    stdout,    \* what `parted --list --script --machine` prints
    isLuks,    \* partition -> `cryptsetup isLuks` exits 0
    sys,       \* devices, volumes, mounts, key files, packages
    files,     \* content of the files the patchers read and write
    obs        \* what has been observed of the execution (history)

vars == <<script, todo, at, i, loc, runs, faults, prompts, exit, VERBOSE,
          stdout, isLuks, sys, files, obs>>

Absent == <<"<absent>">>

\* the commands that are the "act" of a probe/act pair, each with its target
ActTargets ==
    ({"luksOpen", "pvcreate", "vgcreate", "dd"} \X Names)
    \cup ({"lvcreate", "mkfs"} \X Volumes)
    \cup ({"apt-install"} \X PROBED_PKGS)
    \cup {<<"ssh-keygen", "github_id_rsa">>}

\* system state before anything was provisioned
FreshSys == [
    opened    |-> [n \in Names |-> FALSE],
    pv        |-> [n \in Names |-> FALSE],
    vg        |-> [n \in Names |-> FALSE],
    lv        |-> [v \in Volumes |-> FALSE],
    fs        |-> [v \in Volumes |-> "none"],
    mntroot   |-> FALSE,
    mounted   |-> [m \in {MOUNTS[k] : k \in DOMAIN MOUNTS} |-> FALSE],
    keyfile   |-> [n \in Names |-> FALSE],
    keyreg    |-> [n \in Names |-> FALSE],
    scripts   |-> [s \in {SCRIPTS[k] : k \in DOMAIN SCRIPTS} |-> FALSE],
    installed |-> [p \in PROBED_PKGS |-> FALSE],
    sshkey    |-> FALSE ]

FreshObs(grub, crypttab) == [
    started      |-> {},       \* functions entered in this invocation
    mutated      |-> FALSE,    \* a mutating command ran in this invocation
    failed       |-> FALSE,    \* a mutating command exited non-zero in this invocation
    ranAfterFail |-> FALSE,    \* a mutating command ran after one that had failed
    declined     |-> FALSE,    \* a gate was answered "n" in this invocation
    ranAfterDecline |-> FALSE, \* a mutating command ran after a gate was answered "n"
    addKeyFailed |-> FALSE,    \* luksAddKey exited non-zero in this invocation
    timedOut     |-> {},       \* packages whose probe timed out in this invocation
    ranAfterTimeout |-> FALSE, \* a mutating command ran after a probe had timed out
    skippedKey   |-> {},       \* key files create_key_files found existing
    printed      |-> <<>>,     \* the diff check_partitions printed
    acts         |-> [t \in ActTargets |-> 0],   \* times the act of a pair ran
    fails        |-> [t \in ActTargets |-> 0],   \* times it exited non-zero
    grubOrig     |-> grub,     \* target content when fix_grub was entered
    grubRead     |-> Absent,   \* content fix_grub iterated over
    grubBuilt    |-> Absent,   \* content of grub_new when it was closed
    grubMoved    |-> FALSE,    \* fix_grub's mv exited 0 in this invocation
    tabOrig      |-> crypttab, \* target content when fix_crypttab was entered
    tabBuilt     |-> Absent ]  \* content of the temporary crypttab when closed

\* ------------------------------------------------------------- external commands
\* A command is <<name, target>>.  Its exit status is the environment's choice;
\* a command that exits 0 has had its effect, one that exits non-zero has not.
Effect(s, c) ==
    CASE c[1] = "luksOpen"    -> [s EXCEPT !.opened[c[2]] = TRUE]
      [] c[1] = "pvcreate"    -> [s EXCEPT !.pv[c[2]] = TRUE]
      [] c[1] = "vgcreate"    -> [s EXCEPT !.vg[c[2]] = TRUE]
      [] c[1] = "lvcreate"    -> [s EXCEPT !.lv[c[2]] = TRUE]
      [] c[1] = "mkfs"        -> [s EXCEPT !.fs[c[2]] = VolumeData(c[2])[3]]
      [] c[1] = "mkdir"       -> [s EXCEPT !.mntroot = TRUE]
      [] c[1] = "mount"       -> [s EXCEPT !.mounted[c[2]] = TRUE]
      [] c[1] = "dd"          -> [s EXCEPT !.keyfile[c[2]] = TRUE]
      [] c[1] = "luksAddKey"  -> [s EXCEPT !.keyreg[c[2]] = TRUE]
      [] c[1] = "mv-script"   -> [s EXCEPT !.scripts[c[2]] = TRUE]
      [] c[1] = "apt-install" -> [s EXCEPT !.installed[c[2]] = TRUE]
      [] c[1] = "apt-install-packages" -> [s EXCEPT !.installed["nautilus-dropbox"] = TRUE]
      [] c[1] = "ssh-keygen"  -> [s EXCEPT !.sshkey = TRUE]
      [] OTHER                -> s

\* the system after the commands cmds ran in order, those at the indexes F failing
RECURSIVE RunAll(_, _, _, _)
RunAll(s, cmds, F, k) ==
    IF k > Len(cmds) THEN s
    ELSE RunAll(IF k \in F THEN s ELSE Effect(s, cmds[k]), cmds, F, k + 1)

\* the choices of failing commands among n commands that the fault bound allows
FailSets(n) == {F \in SUBSET (1..n) : Cardinality(F) <= MaxFaults - faults}

\* the history after function fn ran the mutating commands cmds, those at F failing
Observe(o, fn, cmds, F) ==
    [o EXCEPT
        !.started = @ \cup {fn},
        !.mutated = @ \/ cmds # <<>>,
        !.failed  = @ \/ F # {},
        !.ranAfterFail = @ \/ (o.failed /\ cmds # <<>>)
                           \/ (\E j \in DOMAIN cmds : \E k \in F : k < j),
        !.ranAfterDecline = @ \/ (o.declined /\ cmds # <<>>),
        !.ranAfterTimeout = @ \/ (o.timedOut # {} /\ cmds # <<>>),
        !.addKeyFailed = @ \/ (\E k \in F : cmds[k][1] = "luksAddKey"),
        !.acts  = [t \in ActTargets |-> @[t] + Cardinality({k \in DOMAIN cmds : cmds[k] = t})],
        !.fails = [t \in ActTargets |-> @[t] + Cardinality({k \in F : cmds[k] = t})] ]

\* ------------------------------------------------------------- control
Running(fn, where) == todo # <<>> /\ Head(todo) = fn /\ at = where

\* the function returns to the entry point, which makes its next call or ends
Return ==
    /\ todo' = Tail(todo)
    /\ at' = "start" /\ i' = 1 /\ loc' = <<>> /\ prompts' = 0
    /\ exit' = IF Tail(todo) = <<>> THEN "exit0" ELSE exit

\* sys.exit(message) or an exception nobody catches: the process ends, status 1
Abort ==
    /\ todo' = <<>>
    /\ at' = "start" /\ i' = 1 /\ loc' = <<>> /\ prompts' = 0
    /\ exit' = "exit1"

Goto(where, idx) ==
    /\ todo' = todo /\ at' = where /\ i' = idx /\ prompts' = 0 /\ exit' = exit

\* the next iteration of a loop over n items, or the return after the last
NextItem(where, n) == IF i < n THEN Goto(where, i + 1) /\ loc' = loc ELSE Return

Env == UNCHANGED <<script, runs, VERBOSE, stdout, isLuks>>

\* query_yes_no: what one line of input leads to
Inputs == {"y", "n", "Y", "N", "maybe"}
lower(c) == IF c = "Y" THEN "y" ELSE IF c = "N" THEN "n" ELSE c
query_yes_no(c) ==
    IF lower(c) = "y" THEN "True" ELSE IF lower(c) = "n" THEN "False" ELSE "again"

\* the gate re-prompts: nothing but the prompt count changes
Reprompt ==
    /\ prompts < MaxPrompts
    /\ prompts' = prompts + 1
    /\ UNCHANGED <<todo, at, i, loc, exit, faults, sys, files, obs>>

RECURSIVE Flatten(_)
Flatten(seqs) == IF seqs = <<>> THEN <<>> ELSE Head(seqs) \o Flatten(Tail(seqs))

Contains(text, tok) == \E k \in DOMAIN text : text[k] = tok

\* subprocess.run(command) for each of cmds in order, no exit status looked at
Exec(fn, cmds) ==
    \E F \in FailSets(Len(cmds)) :
        /\ sys' = RunAll(sys, cmds, F, 1)
        /\ faults' = faults + Cardinality(F)
        /\ obs' = Observe(obs, fn, cmds, F)

Enter(fn) == obs' = [obs EXCEPT !.started = @ \cup {fn}]

\* ------------------------------------------------------------- check_partitions
check_partitions ==
    /\ Running("check_partitions", "start")
    /\ LET diff == partitions_diff(stdout)
       IN  IF diff # <<>>
           THEN /\ obs' = [obs EXCEPT !.started = @ \cup {"check_partitions"},
                                      !.printed = diff]
                /\ Abort
           ELSE /\ Enter("check_partitions")
                /\ IF VERBOSE THEN Goto("ask", 1) /\ loc' = loc ELSE Return
    /\ UNCHANGED <<faults, sys, files>> /\ Env

\* "Do these partitions makes sense? It passed our expectations."
check_partitions_ask(c) ==
    /\ Running("check_partitions", "ask")
    /\ CASE query_yes_no(c) = "True"  -> Return /\ UNCHANGED <<faults, sys, files, obs>>
         [] query_yes_no(c) = "False" -> /\ Abort
                                         /\ obs' = [obs EXCEPT !.declined = TRUE]
                                         /\ UNCHANGED <<faults, sys, files>>
         [] OTHER -> Reprompt
    /\ Env

\* (mutant) a device that is no LUKS volume is reported and the loop goes on
setup_luks_noraise ==
    /\ Running("setup_luks", "start")
    /\ Enter("setup_luks")
    /\ IF isLuks[LUKS_DEVICES[i][1]] /\ VERBOSE
       THEN Goto("ask", i) /\ loc' = loc
       ELSE NextItem("start", Len(LUKS_DEVICES))
    /\ UNCHANGED <<faults, sys, files>> /\ Env

\* ------------------------------------------------------------- setup_luks
\* one iteration of the loop over LUKS_DEVICES
setup_luks ==
    /\ Running("setup_luks", "start")
    /\ Enter("setup_luks")
    /\ IF isLuks[LUKS_DEVICES[i][1]]
       THEN IF VERBOSE THEN Goto("ask", i) /\ loc' = loc
                       ELSE NextItem("start", Len(LUKS_DEVICES))
       ELSE Abort    \* RuntimeError("Did not find LUKS volume ...")
    /\ UNCHANGED <<faults, sys, files>> /\ Env

\* "Does this look okay?"
setup_luks_ask(c) ==
    /\ Running("setup_luks", "ask")
    /\ CASE query_yes_no(c) = "True"  -> /\ NextItem("start", Len(LUKS_DEVICES))
                                         /\ UNCHANGED <<faults, sys, files, obs>>
         [] query_yes_no(c) = "False" -> /\ Abort
                                         /\ obs' = [obs EXCEPT !.declined = TRUE]
                                         /\ UNCHANGED <<faults, sys, files>>
         [] OTHER -> Reprompt
    /\ Env

\* ------------------------------------------------------------- open_luks
open_luks ==
    /\ Running("open_luks", "start")
    /\ LET closed == SelectSeq(LUKS_DEVICES, LAMBDA d : ~sys.opened[d[2]])
       IN  Exec("open_luks", [k \in DOMAIN closed |-> <<"luksOpen", closed[k][2]>>])
    /\ Return
    /\ UNCHANGED files /\ Env

\* (mutant) pvcreate runs whatever `pvs` says
check_physical_volumes_noprobe ==
    /\ Running("check_physical_volumes", "start")
    /\ Exec("check_physical_volumes",
            [k \in DOMAIN LUKS_DEVICES |-> <<"pvcreate", LUKS_DEVICES[k][2]>>])
    /\ Return
    /\ UNCHANGED files /\ Env

\* ------------------------------------------------------------- check_physical_volumes
check_physical_volumes ==
    /\ Running("check_physical_volumes", "start")
    /\ LET missing == SelectSeq(LUKS_DEVICES, LAMBDA d : ~sys.pv[d[2]])
       IN  Exec("check_physical_volumes",
                [k \in DOMAIN missing |-> <<"pvcreate", missing[k][2]>>])
    /\ Return
    /\ UNCHANGED files /\ Env

\* ------------------------------------------------------------- check_volume_groups
check_volume_groups ==
    /\ Running("check_volume_groups", "start")
    /\ LET missing == SelectSeq(VOLUME_GROUPS, LAMBDA g : ~sys.vg[g[1]])
           create(g) == [k \in DOMAIN g[2] |->
                            <<IF k = 1 THEN "vgcreate" ELSE "vgextend", g[1]>>]
       IN  Exec("check_volume_groups",
                Flatten([k \in DOMAIN missing |-> create(missing[k])]))
    /\ Return
    /\ UNCHANGED files /\ Env

\* ------------------------------------------------------------- check_logical_volumes
\* what `blkid -s TYPE /dev/mapper/<group>-<name>` prints
blkid_stdout(s, v) ==
    IF s.fs[v] = "none" THEN <<>>
    ELSE <<"/dev/mapper/", VolumeData(v)[1], "-", v, ": TYPE=", s.fs[v], nl>>

check_logical_volumes ==
    /\ Running("check_logical_volumes", "start")
    /\ LET create(d) ==
               (IF sys.lv[d[2]] THEN <<>> ELSE << <<"lvcreate", d[2]>> >>)
               \o (IF Contains(blkid_stdout(sys, d[2]), d[3]) THEN <<>>
                   ELSE << <<"mkfs", d[2]>> >>)
       IN  Exec("check_logical_volumes",
                Flatten([k \in DOMAIN LOGICAL_VOLUMES |-> create(LOGICAL_VOLUMES[k])]))
    /\ Return
    /\ UNCHANGED files /\ Env

\* ------------------------------------------------------------- __main__, line 476
\* query_yes_no("Now install Ubuntu! Is it installed?"): the answer is dropped
query_installed(c) ==
    /\ Running("query_installed", "start")
    /\ CASE query_yes_no(c) = "True"  ->
              /\ Return /\ Enter("query_installed")
              /\ UNCHANGED <<faults, sys, files>>
         [] query_yes_no(c) = "False" ->
              /\ Return
              /\ obs' = [obs EXCEPT !.started = @ \cup {"query_installed"},
                                    !.declined = TRUE]
              /\ UNCHANGED <<faults, sys, files>>
         [] OTHER -> Reprompt
    /\ Env

\* ------------------------------------------------------------- mount_partitions
mount_partitions ==
    /\ Running("mount_partitions", "start")
    /\ Exec("mount_partitions",
            << <<"mkdir", "/mnt/root">> >> \o [k \in DOMAIN MOUNTS |-> <<"mount", MOUNTS[k]>>])
    /\ Return
    /\ UNCHANGED files /\ Env

\* ------------------------------------------------------------- create_key_files
create_key_files ==
    /\ Running("create_key_files", "start")
    /\ LET missing == SelectSeq(KEY_FILES, LAMBDA n : ~sys.keyfile[n])
           cmds == Flatten([k \in DOMAIN missing |->
                       << <<"dd", missing[k]>>, <<"luksAddKey", missing[k]>> >>])
       IN  \E F \in FailSets(Len(cmds)) :
              /\ sys' = RunAll(sys, cmds, F, 1)
              /\ faults' = faults + Cardinality(F)
              /\ obs' = [Observe(obs, "create_key_files", cmds, F) EXCEPT
                            !.skippedKey = {n \in Names : sys.keyfile[n]}]
    /\ Return
    /\ UNCHANGED files /\ Env

\* ------------------------------------------------------------- move
\* move(source, dest) is called by fix_crypttab, fix_grub and (for each of
\* SCRIPTS) fix_chroot_stuff: mkdir -p, mv, chown, one command at a time.
Movers == {"fix_crypttab", "fix_grub", "fix_chroot_stuff"}

\* the files record's fields move is called with
MoveSource(fn) == IF fn = "fix_crypttab" THEN "crypttab" ELSE "grub_new"
MoveDest(fn)   == IF fn = "fix_crypttab" THEN "crypttab_final" ELSE "grub_final"

\* subprocess.run(["sudo", "mkdir", "-p", str(d)])
move_mkdir ==
    \E fn \in Movers :
        /\ Running(fn, "mkdir")
        /\ Exec(fn, << <<"mkdir -p", fn>> >>)
        /\ Goto("mv", i) /\ UNCHANGED <<loc, files>> /\ Env

\* subprocess.run(["sudo", "mv", source, dest]): dest becomes source, or nothing happens
move_mv ==
    \E fn \in Movers :
        /\ Running(fn, "mv")
        /\ \E F \in FailSets(1) :
              /\ faults' = faults + Cardinality(F)
              /\ IF fn = "fix_chroot_stuff"
                 THEN /\ sys' = RunAll(sys, << <<"mv-script", SCRIPTS[i]>> >>, F, 1)
                      /\ obs' = Observe(obs, fn, << <<"mv-script", SCRIPTS[i]>> >>, F)
                      /\ files' = files
                 ELSE /\ sys' = sys
                      /\ obs' = [Observe(obs, fn, << <<"mv", fn>> >>, F) EXCEPT
                                    !.grubMoved = @ \/ (fn = "fix_grub" /\ F = {})]
                      /\ files' = IF F # {} THEN files
                                  ELSE [files EXCEPT ![MoveDest(fn)] = files[MoveSource(fn)],
                                                     ![MoveSource(fn)] = Absent]
        /\ Goto("chown", i) /\ loc' = loc /\ Env

\* subprocess.run(["sudo", "chown", "root:root", dest])
move_chown ==
    \E fn \in Movers :
        /\ Running(fn, "chown")
        /\ Exec(fn, << <<"chown", fn>> >>)
        /\ Goto("after_move", i) /\ UNCHANGED <<loc, files>> /\ Env

\* ------------------------------------------------------------- fix_crypttab
\* what `cryptsetup luksUUID <partition>` prints
luksUUID == [d \in Devices |-> IF d = "/dev/sda5" THEN "<uuid of sda5>" ELSE "<uuid of sdb3>"]

\* data.format(...).strip() followed by "\n"
crypttab_data ==
    <<"#<name> <source device> <key file> <options>", nl,
      "system  UUID=", luksUUID[LUKS_NAME_MAP["system"]],
      " /etc/crypt.system luks,discard,noearly,keyscript=/lib/cryptsetup/scripts/getinitramfskey.sh", nl,
      "data    UUID=", luksUUID[LUKS_NAME_MAP["data"]],
      " /etc/crypt.data   luks,discard,noearly", nl>>

\* get_luks_uuid twice (a non-zero exit raises RuntimeError), then the
\* temporary file "crypttab" is written and closed
fix_crypttab ==
    /\ Running("fix_crypttab", "start")
    /\ \E uuid_ok \in BOOLEAN :
          /\ uuid_ok \/ faults < MaxFaults
          /\ faults' = IF uuid_ok THEN faults ELSE faults + 1
          /\ IF uuid_ok
             THEN /\ files' = [files EXCEPT !.crypttab = crypttab_data]
                  /\ obs' = [obs EXCEPT !.started = @ \cup {"fix_crypttab"},
                                        !.tabOrig = files.crypttab_final,
                                        !.tabBuilt = crypttab_data]
                  /\ Goto("mkdir", 1) /\ loc' = loc
             ELSE /\ files' = files
                  /\ Enter("fix_crypttab")
                  /\ Abort
    /\ sys' = sys /\ Env

\* subprocess.run("sudo chmod -rw /mnt/root/etc/crypt*", shell=True)
fix_crypttab_chmod ==
    /\ Running("fix_crypttab", "after_move")
    /\ Exec("fix_crypttab", << <<"chmod", "/mnt/root/etc/crypt*">> >>)
    /\ Return
    /\ UNCHANGED files /\ Env

\* ------------------------------------------------------------- fix_grub
startswith(line, pattern) == line # <<>> /\ line[1] = pattern

\* what the loop body writes to grub_new for one line
grub_line(line) ==
    IF startswith(line, "GRUB_HIDDEN_TIMEOUT=0") THEN <<"#", "GRUB_HIDDEN_TIMEOUT=0", nl>>
    ELSE IF startswith(line, "GRUB_HIDDEN_TIMEOUT_QUIET=true")
         THEN <<"GRUB_HIDDEN_TIMEOUT_QUIET=false", nl>>
    ELSE IF startswith(line, "GRUB_ENABLE_CRYPTODISK=y") THEN <<>>
    ELSE line

\* what the loop body makes of crypto_present for one line
grub_crypto_present(line, crypto_present) ==
    IF startswith(line, "GRUB_HIDDEN_TIMEOUT=0") THEN crypto_present
    ELSE IF startswith(line, "GRUB_HIDDEN_TIMEOUT_QUIET=true") THEN crypto_present
    ELSE IF startswith(line, "GRUB_ENABLE_CRYPTODISK=y") THEN TRUE
    ELSE crypto_present

\* subprocess.run(["sudo", "cp", grub_final, "grub"])
fix_grub ==
    /\ Running("fix_grub", "start")
    /\ \E F \in FailSets(1) :
          /\ faults' = faults + Cardinality(F)
          /\ files' = IF F = {} THEN [files EXCEPT !.grub = files.grub_final] ELSE files
          /\ obs' = [Observe(obs, "fix_grub", << <<"cp", "grub">> >>, F) EXCEPT
                        !.grubOrig = files.grub_final,
                        !.grubRead = Absent, !.grubBuilt = Absent, !.grubMoved = FALSE]
    /\ Goto("open", 1) /\ loc' = loc
    /\ sys' = sys /\ Env

\* with open("grub", "r") as f, open("grub_new", "w") as f2: crypto_present = False
fix_grub_open ==
    /\ Running("fix_grub", "open")
    /\ IF files.grub = Absent
       THEN /\ Abort /\ files' = files /\ obs' = obs     \* FileNotFoundError
       ELSE /\ Goto("loop", 1)
            /\ loc' = [lines |-> splitlines(files.grub), crypto_present |-> FALSE]
            /\ files' = [files EXCEPT !.grub_new = <<>>]
            /\ obs' = [obs EXCEPT !.grubRead = files.grub]
    /\ UNCHANGED <<faults, sys>> /\ Env

\* (mutant) the loop patches the target in place instead of writing grub_new
fix_grub_line_inplace ==
    /\ Running("fix_grub", "loop")
    /\ i <= Len(loc.lines)
    /\ files' = [files EXCEPT !.grub_final =
                    (IF i = 1 THEN <<>> ELSE @) \o grub_line(loc.lines[i])]
    /\ loc' = [loc EXCEPT !.crypto_present = grub_crypto_present(loc.lines[i], @)]
    /\ Goto("loop", i + 1)
    /\ UNCHANGED <<faults, sys, obs>> /\ Env

\* one iteration of `for line in f`
fix_grub_line ==
    /\ Running("fix_grub", "loop")
    /\ i <= Len(loc.lines)
    /\ files' = [files EXCEPT !.grub_new = @ \o grub_line(loc.lines[i])]
    /\ loc' = [loc EXCEPT !.crypto_present = grub_crypto_present(loc.lines[i], @)]
    /\ Goto("loop", i + 1)
    /\ UNCHANGED <<faults, sys, obs>> /\ Env

\* after the loop: the flag is appended if no line had it, and both files are closed
fix_grub_close ==
    /\ Running("fix_grub", "loop")
    /\ i > Len(loc.lines)
    /\ LET built == files.grub_new \o
                    (IF loc.crypto_present THEN <<>> ELSE <<"GRUB_ENABLE_CRYPTODISK=y", nl>>)
       IN  /\ files' = [files EXCEPT !.grub_new = built]
           /\ obs' = [obs EXCEPT !.grubBuilt = built]
    /\ Goto("mkdir", 1) /\ loc' = <<>>
    /\ UNCHANGED <<faults, sys>> /\ Env

\* os.remove("grub")
fix_grub_remove ==
    /\ Running("fix_grub", "after_move")
    /\ files' = [files EXCEPT !.grub = Absent]
    /\ Return
    /\ UNCHANGED <<faults, sys, obs>> /\ Env

\* ------------------------------------------------------------- fix_chroot_stuff
\* the three query_yes_no calls of fix_chroot_stuff: every answer is dropped
fix_chroot_stuff_ask(c) ==
    /\ todo # <<>> /\ Head(todo) = "fix_chroot_stuff"
    /\ at \in {"start", "ask2", "ask3"}
    /\ CASE query_yes_no(c) = "again" -> Reprompt
         [] OTHER ->
              /\ obs' = [obs EXCEPT !.started = @ \cup {"fix_chroot_stuff"},
                                    !.declined = @ \/ query_yes_no(c) = "False"]
              /\ CASE at = "start" -> Goto("startup", 1) /\ UNCHANGED <<loc, files>>
                   [] at = "ask2"  -> /\ Goto("mkdir", 1) /\ loc' = loc
                                      /\ files' = [files EXCEPT !.startup_nsh = Absent]
                   [] OTHER        -> Return /\ files' = files
              /\ UNCHANGED <<faults, sys>>
    /\ Env

\* what /mnt/root/boot/efi/startup.nsh may hold
StartupContents == { <<"\\EFI\\ubuntu\\grubx64.efi", nl>>, <<"x", nl>> }

\* copy("/mnt/root/boot/efi/startup.nsh", "startup.nsh"), the file is read,
\* and it is removed unless the operator has to be asked first
fix_chroot_stuff_startup ==
    /\ Running("fix_chroot_stuff", "startup")
    /\ \E F \in FailSets(2) : \E content \in StartupContents :
          LET copied == IF 2 \in F THEN files.startup_nsh ELSE content
          IN  /\ faults' = faults + Cardinality(F)
              /\ sys' = sys
              /\ obs' = Observe(obs, "fix_chroot_stuff",
                                << <<"mkdir -p", "startup.nsh">>, <<"cp", "startup.nsh">> >>, F)
              /\ IF copied = Absent
                 THEN Abort /\ files' = files                  \* FileNotFoundError
                 ELSE IF ~Contains(copied, "\\EFI\\ubuntu\\grubx64.efi")
                 THEN /\ Goto("ask2", 1) /\ loc' = loc
                      /\ files' = [files EXCEPT !.startup_nsh = copied]
                 ELSE /\ Goto("mkdir", 1) /\ loc' = loc
                      /\ files' = [files EXCEPT !.startup_nsh = Absent]
    /\ Env

\* subprocess.run(["sudo", "chmod", "+x", script]) after each of the three moves
fix_chroot_stuff_chmod ==
    /\ Running("fix_chroot_stuff", "after_move")
    /\ Exec("fix_chroot_stuff", << <<"chmod +x", SCRIPTS[i]>> >>)
    /\ IF i < Len(SCRIPTS) THEN Goto("mkdir", i + 1) ELSE Goto("ask3", 1)
    /\ UNCHANGED <<loc, files>> /\ Env

\* ------------------------------------------------------------- the process
\* the operator starts the script (again) from the top
Invoke ==
    /\ todo = <<>>
    /\ runs < MaxRuns
    /\ runs' = runs + 1
    /\ todo' = script /\ at' = "start" /\ i' = 1 /\ loc' = <<>> /\ prompts' = 0
    /\ exit' = "running"
    /\ obs' = [obs EXCEPT !.started = {}, !.mutated = FALSE, !.failed = FALSE,
                          !.ranAfterFail = FALSE, !.declined = FALSE,
                          !.ranAfterDecline = FALSE, !.addKeyFailed = FALSE,
                          !.timedOut = {}, !.ranAfterTimeout = FALSE,
                          !.skippedKey = {}, !.printed = <<>>, !.grubMoved = FALSE]
    /\ UNCHANGED <<script, faults, VERBOSE, stdout, isLuks, sys, files>>

\* the process is killed between two steps (a fault of the environment)
Interrupt ==
    /\ todo # <<>>
    /\ faults < MaxFaults
    /\ faults' = faults + 1
    /\ todo' = <<>> /\ at' = "start" /\ i' = 1 /\ loc' = <<>> /\ prompts' = 0
    /\ exit' = "killed"
    /\ UNCHANGED <<script, runs, VERBOSE, stdout, isLuks, sys, files, obs>>

\* outputs of the partitioning tool: the two expected disks as the tool prints
\* them (every section followed by a blank line), the same with a third disk,
\* a different second disk, and the expected text itself
PartedSamples == {
    <<"A", nl, nl, "B", nl, nl>>,
    <<"A", nl, nl, "B", nl, nl, "x", nl, nl>>,
    <<"A", nl, nl, "x", nl, nl>>,
    expected_partitions }

\* /mnt/root/etc/default/grub as installed: a usual file, one whose last line
\* has no newline, one that has the flag already
GrubSamples == {
    <<"GRUB_HIDDEN_TIMEOUT=0", nl, "GRUB_HIDDEN_TIMEOUT_QUIET=true", nl, "GRUB_DEFAULT=0", nl>>,
    <<"GRUB_HIDDEN_TIMEOUT=0", nl, "GRUB_HIDDEN_TIMEOUT_QUIET=true", nl, "GRUB_DEFAULT=0">>,
    <<"GRUB_DEFAULT=0", nl, "GRUB_ENABLE_CRYPTODISK=y", nl>> }

InitFiles(grub) == [
    grub_final     |-> grub,
    crypttab_final |-> <<"# <target name> <source device> <key file> <options>", nl>>,
    grub           |-> Absent,
    grub_new       |-> Absent,
    crypttab       |-> Absent,
    startup_nsh    |-> Absent ]

InitProcess ==
    /\ todo = script /\ at = "start" /\ i = 1 /\ loc = <<>>
    /\ runs = 1 /\ faults = 0 /\ prompts = 0 /\ exit = "running"

Init ==
    /\ script = Main
    /\ InitProcess
    /\ VERBOSE \in BOOLEAN
    /\ stdout \in PartedSamples
    /\ isLuks \in [Devices -> BOOLEAN]
    /\ sys = FreshSys
    /\ \E grub \in GrubSamples :
          /\ files = InitFiles(grub)
          /\ obs = FreshObs(grub, files.crypttab_final)

Next ==
    \/ check_partitions
    \/ \E c \in Inputs : check_partitions_ask(c)
    \/ setup_luks
    \/ \E c \in Inputs : setup_luks_ask(c)
    \/ open_luks
    \/ check_physical_volumes
    \/ check_volume_groups
    \/ check_logical_volumes
    \/ \E c \in Inputs : query_installed(c)
    \/ mount_partitions
    \/ create_key_files
    \/ fix_crypttab
    \/ fix_crypttab_chmod
    \/ fix_grub
    \/ fix_grub_open
    \/ fix_grub_line
    \/ fix_grub_close
    \/ fix_grub_remove
    \/ \E c \in Inputs : fix_chroot_stuff_ask(c)
    \/ fix_chroot_stuff_startup
    \/ fix_chroot_stuff_chmod
    \/ move_mkdir
    \/ move_mv
    \/ move_chown
    \/ Invoke
    \/ Interrupt

Spec == Init /\ [][Next]_vars

\* ------------------------------------------------------------- setup_desktop.py
\* (mutant) a probe that times out answers "not installed"
is_installed_swallowed(s, package_name, timed_out) ==
    IF timed_out THEN "no" ELSE IF s.installed[package_name] THEN "yes" ELSE "no"

\* is_installed(package_name): `dpkg -l` under a timeout of 0.05 s.  "yes" and
\* "no" are p.returncode == 0; "timeout" is subprocess.TimeoutExpired, raised
\* out of is_installed and caught by nobody.
is_installed(s, package_name, timed_out) ==
    IF timed_out THEN "timeout" ELSE IF s.installed[package_name] THEN "yes" ELSE "no"

\* `if not is_installed(package_name):` install_packages(packages) under
\* check=True followed by one unchecked command: a non-zero exit of apt raises
\* CalledProcessError
install_probed(fn, package_name, launch) ==
    /\ Running(fn, "start")
    /\ \E timed_out \in BOOLEAN :
          /\ ~timed_out \/ faults < MaxFaults
          /\ LET r == is_installed(sys, package_name, timed_out)
                 t == IF timed_out THEN 1 ELSE 0
                 o == [obs EXCEPT !.started = @ \cup {fn},
                                  !.timedOut = @ \cup (IF timed_out THEN {package_name} ELSE {})]
             IN  CASE r = "timeout" ->
                        /\ faults' = faults + t /\ sys' = sys /\ obs' = o
                        /\ Abort
                   [] r = "yes" ->
                        /\ faults' = faults + t /\ sys' = sys /\ obs' = o
                        /\ Return
                   [] OTHER ->
                        \E F \in {G \in SUBSET (1..2) : Cardinality(G) <= MaxFaults - faults - t} :
                           LET cmds == IF 1 \in F
                                       THEN << <<"apt-install", package_name>> >>
                                       ELSE << <<"apt-install", package_name>>, <<launch, package_name>> >>
                           IN  /\ faults' = faults + t + Cardinality(F)
                               /\ sys' = RunAll(sys, cmds, F, 1)
                               /\ obs' = Observe(o, fn, cmds, F \cap DOMAIN cmds)
                               /\ IF 1 \in F THEN Abort ELSE Return
    /\ UNCHANGED files /\ Env

install_nautilus == install_probed("install_nautilus", "nautilus-dropbox", "nautilus --quit")

\* urllib.request.urlretrieve runs between the probe and the install; an
\* exception it raises is caught by nobody
install_chrome ==
    \/ install_probed("install_chrome", "google-chrome-stable", "google-chrome")
    \/ /\ Running("install_chrome", "start")
       /\ ~sys.installed["google-chrome-stable"]
       /\ faults < MaxFaults
       /\ faults' = faults + 1 /\ Enter("install_chrome")
       /\ Abort
       /\ UNCHANGED <<sys, files>> /\ Env

setup_github_keys ==
    /\ Running("setup_github_keys", "start")
    /\ Exec("setup_github_keys",
            IF sys.sshkey THEN << <<"xclip", "github_id_rsa">> >>
                          ELSE << <<"ssh-keygen", "github_id_rsa">> >>)
    /\ Return
    /\ UNCHANGED files /\ Env

\* subprocess.run(command, check=True) for each of cmds in order: the first
\* non-zero exit raises CalledProcessError, which nobody catches
run_checked(fn, cmds) ==
    /\ Running(fn, "start")
    /\ \E k \in 0..Len(cmds) :
          /\ k = 0 \/ faults < MaxFaults
          /\ LET ran == IF k = 0 THEN cmds ELSE SubSeq(cmds, 1, k)
                 F   == IF k = 0 THEN {} ELSE {k}
             IN  /\ sys' = RunAll(sys, ran, F, 1)
                 /\ faults' = faults + Cardinality(F)
                 /\ obs' = Observe(obs, fn, ran, F)
                 /\ IF k = 0 THEN Return ELSE Abort
    /\ UNCHANGED files /\ Env

PPAS == <<"ppa:graphics-drivers/ppa">>
UI_TWEAKS == <<"night-light-enabled", "gtk-theme", "cursor-theme", "icon-theme">>
SYMLINKS == <<"ssh_config", "vimrc">>

add_ppas ==
    run_checked("add_ppas",
                [k \in DOMAIN PPAS |-> <<"add-apt-repository", PPAS[k]>>]
                \o << <<"apt update", "cache">> >>)

update_drivers ==
    run_checked("update_drivers", << <<"ubuntu-drivers autoinstall", "drivers">> >>)

\* install_packages() with its default, PACKAGES, which has nautilus-dropbox
install_packages ==
    run_checked("install_packages", << <<"apt-install-packages", "PACKAGES">> >>)

change_display_settings ==
    run_checked("change_display_settings",
                [k \in DOMAIN UI_TWEAKS |-> <<"gsettings set", UI_TWEAKS[k]>>])

setup_symlinks ==
    run_checked("setup_symlinks",
                [k \in DOMAIN SYMLINKS |-> <<"ln -fTs", SYMLINKS[k]>>])

\* ------------------------------------------------------------- the desktop provisioner
MainDesktop == <<"add_ppas", "update_drivers", "install_nautilus", "install_chrome",
                 "install_packages", "change_display_settings",
                 "setup_github_keys", "setup_symlinks">>

\* the script starts on a machine with any of the probed packages and the key
InitDesktop ==
    /\ script = MainDesktop
    /\ InitProcess
    /\ VERBOSE = FALSE
    /\ stdout = expected_partitions
    /\ isLuks = [d \in Devices |-> TRUE]
    /\ \E f \in [PROBED_PKGS -> BOOLEAN], b \in BOOLEAN :
          sys = [FreshSys EXCEPT !.installed = f, !.sshkey = b]
    /\ files = InitFiles(<<>>)
    /\ obs = FreshObs(<<>>, files.crypttab_final)

NextDesktop ==
    \/ add_ppas
    \/ update_drivers
    \/ install_nautilus
    \/ install_chrome
    \/ install_packages
    \/ change_display_settings
    \/ setup_github_keys
    \/ setup_symlinks
    \/ Invoke

SpecDesktop == InitDesktop /\ [][NextDesktop]_vars

\* ------------------------------------------------------------- check_partitions alone
\* check_partitions called on every output of the tool up to MaxStdoutLen tokens
InitParts ==
    /\ script = <<"check_partitions">>
    /\ InitProcess
    /\ VERBOSE \in BOOLEAN
    /\ stdout \in SeqsUpTo(PartTokens, MaxStdoutLen)
    /\ isLuks = [d \in Devices |-> TRUE]
    /\ sys = FreshSys
    /\ files = InitFiles(<<>>)
    /\ obs = FreshObs(<<>>, files.crypttab_final)

NextParts ==
    \/ check_partitions
    \/ \E c \in Inputs : check_partitions_ask(c)

SpecParts == InitParts /\ [][NextParts]_vars

\* ------------------------------------------------------------- one step, invoked repeatedly
\* the steps built as a probe/act pair
TwiceSteps == {"open_luks", "check_physical_volumes", "check_volume_groups",
               "check_logical_volumes", "create_key_files",
               "install_nautilus", "install_chrome", "setup_github_keys"}

\* every state of the part of the system a step probes
TwiceSys(step) ==
    CASE step = "open_luks" ->
            {[FreshSys EXCEPT !.opened = f] : f \in [Names -> BOOLEAN]}
      [] step = "check_physical_volumes" ->
            {[FreshSys EXCEPT !.pv = f] : f \in [Names -> BOOLEAN]}
      [] step = "check_volume_groups" ->
            {[FreshSys EXCEPT !.vg = f] : f \in [Names -> BOOLEAN]}
      [] step = "check_logical_volumes" ->
            {[FreshSys EXCEPT !.lv = f, !.fs = g] :
                f \in [Volumes -> BOOLEAN], g \in [Volumes -> {"none", "ext3", "ext4", "swap"}]}
      [] step = "create_key_files" ->
            {[FreshSys EXCEPT !.keyfile = f, !.keyreg = g] :
                f \in [Names -> BOOLEAN], g \in [Names -> BOOLEAN]}
      [] step \in {"install_nautilus", "install_chrome"} ->
            {[FreshSys EXCEPT !.installed = f] : f \in [PROBED_PKGS -> BOOLEAN]}
      [] OTHER ->
            {[FreshSys EXCEPT !.sshkey = b] : b \in BOOLEAN}

\* one step is the whole script; Invoke calls it again
InitTwice ==
    /\ \E step \in TwiceSteps :
          /\ script = <<step>>
          /\ sys \in TwiceSys(step)
    /\ InitProcess
    /\ VERBOSE = FALSE
    /\ stdout = expected_partitions
    /\ isLuks = [d \in Devices |-> TRUE]
    /\ files = InitFiles(<<>>)
    /\ obs = FreshObs(<<>>, files.crypttab_final)

NextTwice ==
    \/ open_luks
    \/ check_physical_volumes
    \/ check_volume_groups
    \/ check_logical_volumes
    \/ create_key_files
    \/ install_nautilus
    \/ install_chrome
    \/ setup_github_keys
    \/ Invoke

SpecTwice == InitTwice /\ [][NextTwice]_vars

\* ============================================================= properties

\* ------------------------------------------------------------- C1
AfterGates == {"open_luks", "check_physical_volumes", "check_volume_groups",
               "check_logical_volumes", "query_installed", "mount_partitions",
               "create_key_files", "fix_crypttab", "fix_grub", "fix_chroot_stuff"}

GatesPassed ==
    /\ current_partitions(stdout) = expected_partitions
    /\ \A d \in Devices : isLuks[d]

\* C1: in an invocation, a mutating command has run, or a function after
\* setup_luks has been entered, only if check_partitions found the current
\* layout equal to the expected one and every device of LUKS_DEVICES is a LUKS
\* volume; on a mismatch or a missing LUKS volume nothing of that has happened.
C1_GatesBeforeMutation ==
    (obs.mutated \/ obs.started \cap AfterGates # {}) => GatesPassed

\* an invocation that passed both gates and went through to the key files
C1_Witness ==
    /\ obs.mutated /\ GatesPassed
    /\ "create_key_files" \in obs.started
    /\ \E n \in Names : sys.keyreg[n]

\* ------------------------------------------------------------- C2
IsPrefix(p, s) == Len(p) <= Len(s) /\ SubSeq(s, 1, Len(p)) = p

\* the outputs whose first two sections are the expected ones: the two
\* sections with one blank line between, ending there or going on with a
\* blank line and anything after it
FirstTwoSectionsExpected(out) ==
    \/ out = <<"A", nl, nl, "B">>
    \/ IsPrefix(<<"A", nl, nl, "B", nl, nl>>, out)

CheckedPartitions == "check_partitions" \in obs.started

\* C2 (as amended): check_partitions goes on without a diff exactly when the
\* first two blank-line separated sections of the tool's output are the two
\* expected sections; in every other case it prints a non-empty diff and
\* exits with status 1.  What follows the second blank line is not compared.
C2_FirstTwoSectionsDecide ==
    CheckedPartitions =>
        /\ (obs.printed = <<>>) <=> FirstTwoSectionsExpected(stdout)
        /\ obs.printed # <<>> => exit = "exit1"
        /\ (obs.printed = <<>> /\ ~obs.declined) => exit # "exit1"

\* more than the two expected disks are listed and check_partitions went on
C2_Witness ==
    /\ CheckedPartitions
    /\ Len(stdout) > Len(expected_partitions) + 1
    /\ obs.printed = <<>> /\ exit = "exit0"

\* C2 (as claimed): output identical to expected_partitions() does not abort,
\* and output differing from it in any character aborts with a non-empty diff.
C2_ExactMatchOfOutput ==
    CheckedPartitions =>
        /\ stdout = expected_partitions => (obs.printed = <<>> /\ exit # "exit1")
        /\ stdout # expected_partitions => (obs.printed # <<>> /\ exit = "exit1")

\* ------------------------------------------------------------- C3
\* C3: a gate answered "n" ends the invocation with a non-zero status and no
\* mutating command runs after the answer.
C3_DeclineAborts ==
    obs.declined => (exit = "exit1" /\ ~obs.ranAfterDecline)

\* ------------------------------------------------------------- C4
\* C4: a mutating command that exits non-zero ends the invocation with a
\* non-zero status, and no mutating command runs after it.
C4_FailureIsFatal ==
    obs.failed => (exit = "exit1" /\ ~obs.ranAfterFail)

AfterKeyFiles == {"fix_crypttab", "fix_grub", "fix_chroot_stuff"}

\* C6: in an invocation in which luksAddKey exited non-zero, none of
\* fix_crypttab, fix_grub and fix_chroot_stuff is entered.
C6_AddKeyFailureAborts ==
    obs.addKeyFailed => obs.started \cap AfterKeyFiles = {}

\* ------------------------------------------------------------- C7
LinesWith(text, pattern) ==
    {k \in DOMAIN splitlines(text) : startswith(splitlines(text)[k], pattern)}

\* the input of C7: a timeout line, a quiet line, no cryptodisk line
GrubInputOfC7(text) ==
    /\ text # Absent
    /\ LinesWith(text, "GRUB_HIDDEN_TIMEOUT=0") # {}
    /\ LinesWith(text, "GRUB_HIDDEN_TIMEOUT_QUIET=true") # {}
    /\ LinesWith(text, "GRUB_ENABLE_CRYPTODISK=y") = {}

\* the output of C7 for input text: line for line the input, the timeout line
\* commented out, the quiet line set to false, and one more line, the flag
GrubOutputOfC7(text, out) ==
    LET L == splitlines(text)
        O == splitlines(out)
    IN  /\ Len(O) = Len(L) + 1
        /\ O[Len(O)] = <<"GRUB_ENABLE_CRYPTODISK=y", nl>>
        /\ \A k \in DOMAIN L :
              O[k] = IF startswith(L[k], "GRUB_HIDDEN_TIMEOUT=0")
                         THEN <<"#", "GRUB_HIDDEN_TIMEOUT=0", nl>>
                     ELSE IF startswith(L[k], "GRUB_HIDDEN_TIMEOUT_QUIET=true")
                         THEN <<"GRUB_HIDDEN_TIMEOUT_QUIET=false", nl>>
                     ELSE L[k]

\* C7: once fix_grub has moved its result into place, a file that had the
\* timeout line, the quiet line and no cryptodisk line has the timeout line
\* commented out, the quiet line set to false, every other line as it was and
\* in order, and one GRUB_ENABLE_CRYPTODISK=y line appended at the end.
C7_GrubPatched ==
    (obs.grubMoved /\ GrubInputOfC7(obs.grubRead)) =>
        GrubOutputOfC7(obs.grubRead, files.grub_final)

\* ------------------------------------------------------------- C8
\* C8: after fix_grub has moved its result into place, in the first invocation
\* and in every later one, the file has exactly one GRUB_ENABLE_CRYPTODISK=y line.
C8_OneCryptodiskLine ==
    obs.grubMoved =>
        Cardinality(LinesWith(files.grub_final, "GRUB_ENABLE_CRYPTODISK=y")) = 1

C10_SkippedKeyIsRegistered ==
    \A n \in obs.skippedKey : sys.keyreg[n]

\* ------------------------------------------------------------- C11
\* C11 (amended): a timeout of the package-presence probe is not swallowed.
\* The invocation in which a probe timed out has ended with status 1, and no
\* mutating command (no install action in particular) ran in it after the
\* timeout.
C11_TimeoutAborts ==
    obs.timedOut # {} => (exit = "exit1" /\ todo = <<>> /\ ~obs.ranAfterTimeout)

\* the probe of google-chrome-stable timed out on a machine without it, after
\* the earlier steps of the pipeline had run their commands
C11_Witness ==
    /\ obs.timedOut = {"google-chrome-stable"}
    /\ ~sys.installed["google-chrome-stable"]
    /\ obs.mutated /\ "install_nautilus" \in obs.started
    /\ exit = "exit1"

\* C11 (as claimed): after a probe timed out the pipeline has not aborted and
\* the install action has run, as after a probe that found the package absent.
C11_TimeoutTreatedAsAbsent ==
    obs.timedOut # {} => (exit # "exit1" /\ obs.ranAfterTimeout)

====
